---- MODULE Spec2Model ----
(***************************************************************************)
(* The client-side engine of bashamole: the command execution pipeline     *)
(* (useCommandExecution), the game state hook (useGameState), the tree     *)
(* utilities (useTreeUtils) and the Game component's handlers.             *)
(*                                                                         *)
(* React state is modelled as React keeps it: a committed state, which is  *)
(* what the callbacks of the last render have closed over, and a queue of  *)
(* pending updaters (setState(prev => ...)) that the next render applies   *)
(* in call order.  Promises and timeouts are explicit: a request in flight *)
(* carries the values its continuation closed over when it was issued.     *)
(***************************************************************************)
EXTENDS Integers, Sequences, FiniteSets, TLC

\* ---------------------------------------------------------------- bounds
MaxRequests == 4    \* requests sent to the Game Service, of all kinds together
MaxChildren == 5    \* children of a directory in the trees handed to the layout

\* ---------------------------------------------------------------- values
NULL == "null"
ERROR_OUTPUT == "Error: Failed to execute command. Check your connection."
START_ERROR == "Failed to start game. Is the backend running on http://localhost:8000?"

\* A string of the program is a sequence of tokens: "/" and " " are the characters
\* the code looks for, every other token is a run of other characters.  The empty
\* string (falsy, like undefined) is <<>>.
ROOT == <<"/">>
HOME == <<"/", "home">>
HOME_U == <<"/", "home", "/", "u">>
VAR == <<"/", "var">>

\* A TreeNode (api.ts): path, has_mole and the ordered children.
Node(path, kids) == [path |-> path, has_mole |-> FALSE, children |-> kids]

\* The trees the Game Service generates: the tree of a game depends on the game.
TreeA == Node(ROOT, <<Node(HOME, <<Node(HOME_U, <<>>)>>)>>)
TreeB == Node(ROOT, <<Node(VAR, <<>>)>>)

RECURSIVE PathsOf(_)
RECURSIVE PathsOfAll(_)
PathsOf(n) == {n.path} \cup PathsOfAll(n.children)
PathsOfAll(kids) == IF kids = <<>> THEN {} ELSE PathsOf(Head(kids)) \cup PathsOfAll(Tail(kids))

RECURSIVE MolesOf(_)
RECURSIVE MolesOfAll(_)
MolesOf(n) == (IF n.has_mole THEN {n.path} ELSE {}) \cup MolesOfAll(n.children)
MolesOfAll(kids) == IF kids = <<>> THEN {} ELSE MolesOf(Head(kids)) \cup MolesOfAll(Tail(kids))

\* ------------------------------------------------------------ useTreeUtils
RECURSIVE updateTreeDataToShowMole(_, _)
RECURSIVE ShowMoleInChildren(_, _)
updateTreeDataToShowMole(treeData, molePath) ==
    IF treeData.path = molePath
    THEN [treeData EXCEPT !.has_mole = TRUE]
    ELSE [treeData EXCEPT !.children = ShowMoleInChildren(treeData.children, molePath)]
ShowMoleInChildren(kids, molePath) ==
    IF kids = <<>> THEN <<>>
    ELSE <<updateTreeDataToShowMole(Head(kids), molePath)>> \o ShowMoleInChildren(Tail(kids), molePath)

RECURSIVE removeMoleFromTree(_)
RECURSIVE RemoveMoleInChildren(_)
removeMoleFromTree(treeData) ==
    [treeData EXCEPT !.has_mole = FALSE, !.children = RemoveMoleInChildren(treeData.children)]
RemoveMoleInChildren_Drop(kids) == <<>>
RemoveMoleInChildren(kids) ==
    IF kids = <<>> THEN <<>>
    ELSE <<removeMoleFromTree(Head(kids))>> \o RemoveMoleInChildren(Tail(kids))

\* ----------------------------------------------------------------- commands
RECURSIVE TrimStart(_)
TrimStart(s) == IF s # <<>> /\ Head(s) = " " THEN TrimStart(Tail(s)) ELSE s
RECURSIVE TrimEnd(_)
TrimEnd(s) == IF s # <<>> /\ s[Len(s)] = " " THEN TrimEnd(SubSeq(s, 1, Len(s) - 1)) ELSE s
\* String.prototype.trim
Trim(s) == TrimEnd(TrimStart(s))

\* String.prototype.lastIndexOf('/'), 1-based; 0 when there is none.
RECURSIVE LastSlash(_)
LastSlash(s) == IF s = <<>> THEN 0 ELSE IF s[Len(s)] = "/" THEN Len(s)
                ELSE LastSlash(SubSeq(s, 1, Len(s) - 1))

\* split('/').filter(s => s): the non-empty segments.
RECURSIVE Segments(_)
Segments(s) == IF s = <<>> THEN <<>>
               ELSE IF Head(s) = "/" THEN Segments(Tail(s))
               ELSE <<Head(s)>> \o Segments(Tail(s))

StartsWith(s, prefix) == Len(s) >= Len(prefix) /\ SubSeq(s, 1, Len(prefix)) = prefix
IncludesSlash_Never(s) == FALSE
IncludesSlash(s) == \E i \in 1..Len(s) : s[i] = "/"

\* TreeVisualizer: whether a node is the parent or a direct child of the player's.
isAdjacentNode(nodePath, currentPath) ==
    LET cut == SubSeq(currentPath, 1, LastSlash(currentPath) - 1)
        parentPath == IF cut = <<>> THEN ROOT ELSE cut
    IN  \/ currentPath # ROOT /\ nodePath = parentPath
        \/ currentPath = ROOT /\ Len(Segments(nodePath)) = 1
        \/ /\ currentPath # ROOT
           /\ StartsWith(nodePath, currentPath \o <<"/">>)
           /\ ~IncludesSlash(SubSeq(nodePath, Len(currentPath) + 2, Len(nodePath)))

\* Path strings of at most MaxPathLen tokens: a token is a '/' or a maximal run of
\* other characters, so no two segment tokens are neighbours.
MaxPathLen == 6
SegmentNames == {"home", "u"}
PathStrings ==
    {s \in UNION {[1..n -> {"/"} \cup SegmentNames] : n \in 0..MaxPathLen} :
        \A i \in 1..(Len(s) - 1) : s[i] = "/" \/ s[i + 1] = "/"}

\* An absolute node path: '/' alone, or '/' before each of its non-empty segments.
WellFormedPath(s) ==
    \/ s = ROOT
    \/ /\ Len(s) > 0 /\ Len(s) % 2 = 0
       /\ \A i \in 1..Len(s) : (s[i] = "/") <=> (i % 2 = 1)
NodePaths == {s \in PathStrings : WellFormedPath(s)}

\* The path of the node whose children include the node of path p (p is not '/').
ParentOf(p) == IF Len(p) <= 2 THEN ROOT ELSE SubSeq(p, 1, Len(p) - 2)

\* `cd ${path}`
Cd(path) == <<"cd", " ">> \o path
KILL == <<"killall", " ", "moles">>
BlankCommands == {<<>>, <<" ">>}

\* ------------------------------------------------------------------- state
VARIABLES
    gameState,      \* useGameState: [tree, sessionId, loading, error], as rendered
    gameStats,      \* useGameState: [score, molesKilled, moleDirection, moleKilled]
    hasPlayedIntro, \* useGameState
    cmdState,       \* useCommandExecution: [executing, commandHistory], as rendered
    updates,        \* state updaters queued since the last render, in call order
    requests,       \* executeCommand requests in flight
    gameReqs,       \* createGame requests in flight
    timerReqs,      \* checkTimer requests in flight
    settleTimers,   \* pending setTimeout(..., 1500) callbacks of handleMoleKilled
    dirTimers,      \* pending setTimeout(..., 5000) callbacks of setMoleDirection
    server,         \* the Game Service: per game the player position and the mole
    sent,           \* how many requests were sent to the Game Service
    lastCall,       \* what the most recent executeCommand call did
    received,       \* the request and response of the continuation that just ran
    pollIntervals,  \* TimerDisplay: the setInterval(checkTimer, 1000) timers not cleared
    adjacency,      \* TreeVisualizer: a call of isAdjacentNode, its arguments and result
    viz,            \* TreeVisualizer: its props, refs, zoom transform and transitions
    treeCall,       \* useTreeUtils: a call of one of its functions, arguments and result
    layout,         \* TreeVisualizer: the tree, the container and the layout runs over them
    lastMole,       \* the mole location of the last kill or escape response received
    timerDisplay    \* TimerDisplay: its poll effect, status requests and displayed data

vars == <<gameState, gameStats, hasPlayedIntro, cmdState, updates, requests, gameReqs,
          timerReqs, settleTimers, dirTimers, server, sent, lastCall,
          received, pollIntervals, adjacency, viz, treeCall, layout,
          lastMole, timerDisplay>>

NoTree == [id |-> 0, player_location |-> <<>>, tree_data |-> Node(<<>>, <<>>)]
NoGame == [pos |-> <<>>, mole |-> <<>>, kills |-> 0]
NoResponse == [request |-> 0]

\* ------------------------------------------------- TreeVisualizer: camera
\* previousLocationRef.current = null, and the transform of the g element as the
\* effect builds it: translate(margin.left, margin.top), no zoom transform.
NoLocation == <<>>
BaseTransform == [at |-> <<>>, scale |-> "none", nudged |-> FALSE]

\* getZoomTransform(node, scale, offsetX, offsetY): the transform that puts the node
\* at the centre of the view box, moved by nudgeOffset when nudged.  The layout
\* places a node by the shape of the tree alone, so the node stands for its position.
TreeCenter == <<"treeCenter">>
getZoomTransform(node, scale, nudged) == [at |-> node, scale |-> scale, nudged |-> nudged]
PlayerTransform(playerLocation) == getZoomTransform(playerLocation, "defaultScale", TRUE)

\* The targets of the intro's chained transitions, in order.
IntroPhases_NoPartial(treeData, playerLocation) ==
    LET rootTransform == getZoomTransform(treeData.path, "defaultScale", FALSE)
        fullTreeTransform == getZoomTransform(TreeCenter, "fullTreeScale", FALSE)
        playerTransform == PlayerTransform(playerLocation)
    IN  IF MolesOf(treeData) # {}
        THEN LET moleTransform ==
                     getZoomTransform(CHOOSE m \in MolesOf(treeData) : TRUE, "defaultScale", FALSE)
             IN  <<rootTransform, fullTreeTransform, fullTreeTransform, moleTransform,
                   moleTransform, playerTransform>>
        ELSE <<rootTransform, fullTreeTransform, fullTreeTransform, playerTransform>>
IntroPhases(treeData, playerLocation) ==
    LET rootTransform == getZoomTransform(treeData.path, "defaultScale", FALSE)
        fullTreeTransform == getZoomTransform(TreeCenter, "fullTreeScale", FALSE)
        partialTreeTransform == getZoomTransform(TreeCenter, "partialTreeScale", FALSE)
        playerTransform == PlayerTransform(playerLocation)
    IN  IF MolesOf(treeData) # {}
        THEN LET moleTransform ==
                     getZoomTransform(CHOOSE m \in MolesOf(treeData) : TRUE, "defaultScale", FALSE)
             IN  <<rootTransform, fullTreeTransform, fullTreeTransform, moleTransform,
                   moleTransform, partialTreeTransform, playerTransform>>
        ELSE <<rootTransform, fullTreeTransform, fullTreeTransform, playerTransform>>

NoClick == [node |-> <<>>, from |-> <<>>, invoked |-> FALSE]
NoVisualizer ==
    [treeData |-> Node(<<>>, <<>>), playerLocation |-> <<>>, playIntro |-> FALSE,
     previousLocation |-> NoLocation, isAnimating |-> FALSE,
     zoom |-> BaseTransform, camera |-> BaseTransform,
     chain |-> <<>>, endClears |-> FALSE, attached |-> FALSE,
     staleTimer |-> FALSE, branch |-> "none", repeated |-> FALSE, lastClick |-> NoClick]

\* zoom.transform on the selection sets the transform, whatever the current one is.
ZoomTransformTo_Relative(current, target) == IF current = target THEN BaseTransform ELSE target
ZoomTransformTo(current, target) == target

\* One run of the effect with the props of a render.  v.zoom is the svg's zoom
\* transform, v.camera the transform of the g element this run appended, v.chain the
\* targets of the svg's transitions still to end; a transition scheduled by an
\* earlier run drives the g of that run (attached = FALSE).  treeChanged: the render
\* has a new gameState.tree, which restarts the intro timeout of Game.  branch is
\* the branch this run took, repeated whether it snapped as the run before it did,
\* with the same tree and location.
AnimatingGuard_Missing(v) == TRUE
AnimatingGuard(v) == ~v.isAnimating
TreeVisualizerEffect(v, treeData, playerLocation, playIntro, treeChanged) ==
    LET isNavigation == /\ v.previousLocation # NoLocation
                        /\ v.previousLocation # playerLocation
                        /\ ~playIntro
        playerNode == playerLocation \in PathsOf(treeData)
        playerTransform == PlayerTransform(playerLocation)
        phases == IntroPhases(treeData, playerLocation)
        rendered == [v EXCEPT !.treeData = treeData, !.playerLocation = playerLocation,
                              !.playIntro = playIntro, !.previousLocation = playerLocation,
                              !.camera = BaseTransform, !.attached = FALSE,
                              !.staleTimer = IF treeChanged THEN FALSE ELSE v.staleTimer,
                              !.branch = "none", !.repeated = FALSE]
    IN  IF playIntro /\ playerNode
        THEN [rendered EXCEPT !.zoom = Head(phases), !.camera = Head(phases),
                              !.isAnimating = TRUE, !.chain = phases, !.endClears = TRUE,
                              !.attached = TRUE, !.staleTimer = ~treeChanged,
                              !.branch = "intro"]
        ELSE IF playerNode /\ AnimatingGuard(v)
        THEN IF isNavigation
             THEN [rendered EXCEPT !.camera = v.zoom, !.chain = <<playerTransform>>,
                                   !.endClears = FALSE, !.attached = TRUE,
                                   !.branch = "navigation"]
             ELSE [rendered EXCEPT !.zoom = ZoomTransformTo(v.zoom, playerTransform),
                                   !.camera = ZoomTransformTo(v.zoom, playerTransform),
                                   !.chain = <<>>, !.branch = "snap",
                                   !.repeated = /\ v.branch = "snap"
                                                /\ v.treeData = treeData
                                                /\ v.playerLocation = playerLocation]
        ELSE rendered

\* The trees and locations Game passes: a tree of the service with at most one
\* flagged node, the path of a node of some tree of the service.
WithMoleAt(shape) == {shape} \cup {updateTreeDataToShowMole(shape, m) : m \in PathsOf(shape)}
VizTrees == WithMoleAt(TreeA) \cup WithMoleAt(TreeB)
VizLocations == PathsOf(TreeA) \cup PathsOf(TreeB)

\* Game mounts TreeVisualizer when a created game is rendered: the player at the
\* root, the intro not played.
Mount(treeData) == TreeVisualizerEffect(NoVisualizer, treeData, treeData.path, TRUE, TRUE)

NoTimerDisplay == [mounted |-> FALSE, run |-> 0, interval |-> FALSE, statusReqs |-> {},
                   timerData |-> [expired |-> FALSE, by |-> 0], expireCalledBy |-> 0]
NoLayout == [treeData |-> Node(<<>>, <<>>), containerWidth |-> 0, containerHeight |-> 0,
             runs |-> <<>>]
NoTreeCall == [treeData |-> Node(<<>>, <<>>), molePath |-> <<>>, fn |-> "none",
               result |-> Node(<<>>, <<>>)]
NoCheck == [nodePath |-> <<>>, currentPath |-> <<>>, called |-> FALSE, result |-> FALSE]

\* The rendered state as one record, and the state the next render will commit.
Rendered == [gameState |-> gameState, gameStats |-> gameStats,
             hasPlayedIntro |-> hasPlayedIntro, cmdState |-> cmdState]

\* ------------------------------------------------------------ useGameState
\* The updaters handed to setGameState / setGameStats, as functions of prev.
updatePlayerLocation(prev, newPath) ==
    IF prev.tree # NoTree
    THEN [prev EXCEPT !.tree.player_location = newPath]
    ELSE prev

\* updateTreeData(updater) with the three updaters the Game component passes.
TreeUpdater(kind, path, tree) ==
    CASE kind = "showMole" -> updateTreeDataToShowMole(tree, path)
      [] kind = "moveMole" -> updateTreeDataToShowMole(removeMoleFromTree(tree), path)
      [] kind = "rootMole" -> [tree EXCEPT !.has_mole = TRUE]

updateTreeData_MovesPlayer(prev, kind, path) ==
    IF prev.tree # NoTree
    THEN [prev EXCEPT !.tree.tree_data = TreeUpdater(kind, path, prev.tree.tree_data),
                      !.tree.player_location = path]
    ELSE prev

updateTreeData(prev, kind, path) ==
    IF prev.tree # NoTree
    THEN [prev EXCEPT !.tree.tree_data = TreeUpdater(kind, path, prev.tree.tree_data)]
    ELSE prev

updateScore(prev, score, molesKilled) ==
    [prev EXCEPT !.score = score, !.molesKilled = molesKilled]

InitialGameStats == [score |-> 0, molesKilled |-> 0, moleDirection |-> NULL, moleKilled |-> FALSE]

\* -------------------------------------------------------- useCommandExecution
addToHistory_Prepend(prev, entry) ==
    [prev EXCEPT !.commandHistory = <<entry>> \o prev.commandHistory]

addToHistory(prev, entry) == [prev EXCEPT !.commandHistory = Append(prev.commandHistory, entry)]
clearHistory(prev) == [prev EXCEPT !.commandHistory = <<>>]

\* ------------------------------------------------------------------ updaters
\* One queued updater applied to the state record.
Apply(st, u) ==
    CASE u.op = "updatePlayerLocation" ->
            [st EXCEPT !.gameState = updatePlayerLocation(st.gameState, u.path)]
      [] u.op = "updateTreeData" ->
            [st EXCEPT !.gameState = updateTreeData(st.gameState, u.kind, u.path)]
      [] u.op = "setLoading" ->
            [st EXCEPT !.gameState = [st.gameState EXCEPT !.loading = TRUE, !.error = NULL]]
      [] u.op = "setGame" ->
            [st EXCEPT !.gameState = [tree |-> u.tree, sessionId |-> u.sessionId,
                                      loading |-> FALSE, error |-> NULL]]
      [] u.op = "setStartError" ->
            [st EXCEPT !.gameState = [st.gameState EXCEPT !.loading = FALSE, !.error = START_ERROR]]
      [] u.op = "resetGameStats" -> [st EXCEPT !.gameStats = InitialGameStats]
      [] u.op = "setMoleDirection" -> [st EXCEPT !.gameStats.moleDirection = u.direction]
      [] u.op = "setMoleKilled" -> [st EXCEPT !.gameStats.moleKilled = u.killed]
      [] u.op = "updateScore" ->
            [st EXCEPT !.gameStats = updateScore(st.gameStats, u.score, u.molesKilled)]
      [] u.op = "setHasPlayedIntro" -> [st EXCEPT !.hasPlayedIntro = u.value]
      [] u.op = "setExecuting" -> [st EXCEPT !.cmdState.executing = u.value]
      [] u.op = "addToHistory" -> [st EXCEPT !.cmdState = addToHistory(st.cmdState, u.entry)]
      [] u.op = "clearHistory" -> [st EXCEPT !.cmdState = clearHistory(st.cmdState)]

RECURSIVE ApplyAll(_, _)
ApplyAll(st, us) == IF us = <<>> THEN st ELSE ApplyAll(Apply(st, Head(us)), Tail(us))

\* The state the next render commits: the rendered state with the queue applied.
Latest == ApplyAll(Rendered, updates)

\* ------------------------------------------------------------ Game Service
\* The external collaborator (spec section 6).  Game g is played on ServerTree(g);
\* the service keeps the player's position and the mole per game, answers `cd` and
\* `killall moles`, and never reports the legacy game_won of the single-mole variant.
ServerTree(g) == IF g % 2 = 1 THEN TreeA ELSE TreeB
Games == 1..MaxRequests
CreatedGames == {g \in Games : server[g] # NoGame}
Directions == {NULL, "up"}
TimerWarnings == {<<>>, <<[level |-> "critical", message |-> "hurry"]>>}

PlainResponse(ok, out, path) ==
    [kind |-> "command", success |-> ok, output |-> out, current_path |-> path,
     mole_spawned |-> FALSE, new_mole_location |-> <<>>, mole_direction |-> NULL,
     score |-> -1, moles_killed |-> -1, timer_reason |-> NULL, game_won |-> FALSE,
     timer_warnings |-> <<>>]

KillResponse(game, newMole, dir) ==
    [kind |-> "command", success |-> TRUE, output |-> <<<<"Mole eliminated!">>>>,
     current_path |-> game.pos,
     mole_spawned |-> TRUE, new_mole_location |-> newMole, mole_direction |-> dir,
     score |-> game.kills + 1, moles_killed |-> game.kills + 1, timer_reason |-> "nearby",
     game_won |-> FALSE, timer_warnings |-> <<>>]

\* What the service may do with a command: the new game record and the response.
ServerOutcomes(game, tree, cmd) ==
    LET c == Trim(cmd) IN
    IF Len(c) > 2 /\ c[1] = "cd" /\ c[2] = " "
    THEN IF SubSeq(c, 3, Len(c)) \in PathsOf(tree)
         THEN {[game |-> [game EXCEPT !.pos = SubSeq(c, 3, Len(c))],
                resp |-> PlainResponse(TRUE, <<>>, SubSeq(c, 3, Len(c)))]}
         ELSE {[game |-> game,
                resp |-> PlainResponse(FALSE, <<<<"cd: no such directory">>>>, game.pos)]}
    ELSE IF c = KILL /\ game.pos = game.mole
    THEN {[game |-> [game EXCEPT !.mole = m, !.kills = @ + 1],
           resp |-> KillResponse(game, m, "up")] : m \in PathsOf(tree) \ {game.mole}}
    ELSE {[game |-> game, resp |-> PlainResponse(FALSE, <<<<"no mole here">>>>, game.pos)]}

\* Where the service puts the first mole of a game: on the player's start node or
\* on the first directory below it.
MoleStarts(tree) == {tree.path} \cup {tree.children[i].path : i \in {1} \cap DOMAIN tree.children}

\* The service may attach timer warnings to the response of a failed command.
WithWarnings(outcomes) ==
    {o \in outcomes : o.resp.success} \cup
    {[o EXCEPT !.resp.timer_warnings = w] :
        o \in {x \in outcomes : ~x.resp.success}, w \in TimerWarnings}

\* ------------------------------------------------------------------- Init
GameInit ==
    /\ gameState = [tree |-> NoTree, sessionId |-> 0, loading |-> FALSE, error |-> NULL]
    /\ gameStats = InitialGameStats
    /\ hasPlayedIntro = FALSE
    /\ cmdState = [executing |-> FALSE, commandHistory |-> <<>>]
    /\ updates = <<>>
    /\ requests = {}
    /\ gameReqs = 0
    /\ timerReqs = {}
    /\ settleTimers = <<>>
    /\ dirTimers = 0
    /\ server = [g \in Games |-> NoGame]
    /\ sent = 0
    /\ lastCall = "none"
    /\ received = NoResponse
    /\ pollIntervals = <<>>
    /\ lastMole = [treeId |-> 0, location |-> <<>>]
    /\ timerDisplay = NoTimerDisplay

Init ==
    GameInit /\ adjacency = NoCheck /\ viz = NoVisualizer /\ treeCall = NoTreeCall /\ layout = NoLayout

\* The main game screen is rendered: not the loading, error or start screen.
MainScreenOf(gs) == ~gs.loading /\ gs.error = NULL /\ gs.tree # NoTree
MainScreen == MainScreenOf(gameState)

\* ------------------------------------------------------- TimerDisplay poll
\* The effect's dependencies [gameTreeId, sessionId, onTimerExpire] differ between
\* two renders: handleTimerExpire is a new callback whenever gameState.tree or
\* gameState.sessionId is a new value.
PollDepsChanged(old, new) == old.tree # new.tree \/ old.sessionId # new.sessionId

PollCleanup_Missing(intervals) == intervals

\* The effect's cleanup: clearInterval of the interval the effect set, the latest.
PollCleanup(intervals) == SubSeq(intervals, 1, Len(intervals) - 1)

\* The effect's body: no interval without a tree id, else setInterval.
PollEffect(gs, intervals) ==
    IF gs.tree.id = 0 THEN intervals
    ELSE Append(intervals, [treeId |-> gs.tree.id, sessionId |-> gs.sessionId])

PollAfterRender_Unguarded(old, new, intervals) ==
    <<[treeId |-> new.tree.id, sessionId |-> new.sessionId]>>

\* The intervals after a render from gameState old to new: TimerDisplay is mounted
\* with the main screen; its cleanup runs on unmount and before the effect re-runs,
\* its effect on mount and when a dependency changed.
PollAfterRender(old, new, intervals) ==
    LET wasMounted == MainScreenOf(old)
        isMounted == MainScreenOf(new)
        cleaned == IF wasMounted /\ (~isMounted \/ PollDepsChanged(old, new))
                   THEN PollCleanup(intervals) ELSE intervals
    IN  IF isMounted /\ (~wasMounted \/ PollDepsChanged(old, new))
        THEN PollEffect(new, cleaned) ELSE cleaned

\* React renders: the queued updaters are applied in order and the callbacks of the
\* new render close over the result; then the effects of the render run.
Render ==
    /\ updates # <<>>
    /\ gameState' = Latest.gameState
    /\ gameStats' = Latest.gameStats
    /\ hasPlayedIntro' = Latest.hasPlayedIntro
    /\ cmdState' = Latest.cmdState
    /\ updates' = <<>>
    /\ pollIntervals' = PollAfterRender(gameState, Latest.gameState, pollIntervals)
    /\ UNCHANGED <<adjacency, viz, treeCall, layout, lastMole, timerDisplay>>
    /\ lastCall = "none" /\ UNCHANGED lastCall /\ received' = NoResponse
    /\ UNCHANGED <<requests, gameReqs, timerReqs, settleTimers, dirTimers, server, sent>>

\* ---------------------------------------------------------- executeCommand
CallOutcome_NoTrim(cmd) ==
    IF gameState.tree.id = 0 THEN "no_session"
    ELSE IF cmd = <<>> THEN "blank"
    ELSE IF cmdState.executing THEN "busy"
    ELSE "sent"

\* The early return of executeCommand: which of its three conditions rejects the
\* call, over the values the callback closed over at the last render.
CallOutcome(cmd) ==
    IF gameState.tree.id = 0 THEN "no_session"
    ELSE IF Trim(cmd) = <<>> THEN "blank"
    ELSE IF cmdState.executing THEN "busy"
    ELSE "sent"

\* A call that returned early is remembered until the wrapper's continuation runs.
Rejected(outcome) == IF outcome = "sent" THEN "none" ELSE outcome

\* The request, with what its continuation closes over: the command, the tree id
\* and session id, and (through onMoleKilled) the rendered player location.
NewRequest(cmd) ==
    [id |-> sent + 1, cmd |-> cmd, treeId |-> gameState.tree.id,
     sessionId |-> gameState.sessionId, loc |-> gameState.tree.player_location]

executeCommand(cmd) ==
    /\ lastCall = "none"
    /\ lastCall' = Rejected(CallOutcome(cmd))
    /\ received' = NoResponse /\ UNCHANGED <<pollIntervals, adjacency, viz, treeCall, layout, lastMole, timerDisplay>>
    /\ IF CallOutcome(cmd) = "sent"
       THEN /\ sent < MaxRequests
            /\ updates' = Append(updates, [op |-> "setExecuting", value |-> TRUE, by |-> 0])
            /\ requests' = requests \cup {NewRequest(cmd)}
            /\ sent' = sent + 1
       ELSE UNCHANGED <<updates, requests, sent>>
    /\ UNCHANGED <<gameState, gameStats, hasPlayedIntro, cmdState, gameReqs, timerReqs,
                   settleTimers, dirTimers, server>>

\* The wrapper of the Game component after a call that returned early: the await
\* ends in the same tick and clearCommand() empties the terminal input.
clearCommand ==
    /\ lastCall # "none"
    /\ lastCall' = "none"
    /\ received' = NoResponse /\ UNCHANGED <<pollIntervals, adjacency, viz, treeCall, layout, lastMole, timerDisplay>>
    /\ UNCHANGED <<gameState, gameStats, hasPlayedIntro, cmdState, updates, requests, gameReqs,
                   timerReqs, settleTimers, dirTimers, server, sent>>

\* The terminal submits what the player typed (Enter in the input, which is
\* disabled while the rendered in-flight flag is set).
TerminalSubmit ==
    /\ MainScreen
    /\ ~cmdState.executing
    /\ \E cmd \in BlankCommands \cup {KILL} : executeCommand(cmd)

\* The click handler of a node of the rendered tree, and handleNodeClick.
handleNodeClick ==
    /\ MainScreen
    /\ \E path \in PathsOf(gameState.tree.tree_data) :
          /\ path # gameState.tree.player_location
          /\ isAdjacentNode(path, gameState.tree.player_location)
          /\ executeCommand(Cd(path))

\* The hook's executeCommand called while no game is loaded: the first condition
\* of its guard. The game screen has no control that does this; the hook allows it.
CallWithoutGame ==
    /\ gameState.tree = NoTree
    /\ executeCommand(KILL)

RECURSIVE WarningLines(_)
WarningLines(ws) ==
    IF ws = <<>> THEN <<>>
    ELSE <<<<"warning", Head(ws).level, Head(ws).message>>>> \o WarningLines(Tail(ws))

FullOutput_WarningsLast(response) == response.output \o WarningLines(response.timer_warnings)

\* fullOutput: the timer-warning lines above the primary output.
FullOutput(response) == WarningLines(response.timer_warnings) \o response.output

\* handleMoleKilled, the part that runs at once: the updaters it queues.
handleMoleKilled(r, response) ==
    <<[op |-> "updateTreeData", kind |-> "showMole", path |-> r.loc, by |-> r.id],
      [op |-> "setMoleKilled", killed |-> TRUE, by |-> r.id]>>
    \o (IF response.score # -1 /\ response.moles_killed # -1
        THEN <<[op |-> "updateScore", score |-> response.score,
                molesKilled |-> response.moles_killed, by |-> r.id]>>
        ELSE <<>>)

ResponseUpdates_MoleFirst(r, response) ==
    <<[op |-> "addToHistory", by |-> r.id,
       entry |-> [command |-> r.cmd, output |-> FullOutput(response),
                  success |-> response.success]]>>
    \o (IF response.mole_spawned THEN handleMoleKilled(r, response) ELSE <<>>)
    \o (IF response.current_path # <<>>
        THEN <<[op |-> "updatePlayerLocation", path |-> response.current_path, by |-> r.id]>>
        ELSE <<>>)

\* The try block after the await: the updaters queued for a response.
ResponseUpdates(r, response) ==
    <<[op |-> "addToHistory", by |-> r.id,
       entry |-> [command |-> r.cmd, output |-> FullOutput(response),
                  success |-> response.success]]>>
    \o (IF response.current_path # <<>>
        THEN <<[op |-> "updatePlayerLocation", path |-> response.current_path, by |-> r.id]>>
        ELSE <<>>)
    \o (IF response.mole_spawned THEN handleMoleKilled(r, response) ELSE <<>>)
    \o (IF response.game_won /\ ~response.mole_spawned
        THEN <<[op |-> "updateTreeData", kind |-> "rootMole", path |-> <<>>, by |-> r.id]>>
        ELSE <<>>)

CatchUpdates_Silent(r) == <<>>

\* The catch block.
CatchUpdates(r) ==
    <<[op |-> "addToHistory", by |-> r.id,
       entry |-> [command |-> r.cmd, output |-> <<<<ERROR_OUTPUT>>>>, success |-> FALSE]]>>

FinallyUpdates_Skipped(r) == <<>>

\* The finally block.
FinallyUpdates(r) == <<[op |-> "setExecuting", value |-> FALSE, by |-> r.id]>>

\* The setTimeout(..., 1500) handleMoleKilled schedules.
SettleTimer(r, response) ==
    [new_mole_location |-> response.new_mole_location,
     mole_direction |-> response.mole_direction, by |-> r.id, treeId |-> r.treeId]

\* The request resolves with the service's response and the continuation of
\* executeCommand runs.
ResolveCommand(r) ==
    /\ updates = <<>>
    /\ \E o \in WithWarnings(ServerOutcomes(server[r.treeId], ServerTree(r.treeId), r.cmd)) :
          /\ server' = [server EXCEPT ![r.treeId] = o.game]
          /\ updates' = updates \o ResponseUpdates(r, o.resp) \o FinallyUpdates(r)
          /\ received' = [request |-> r, response |-> o.resp]
          /\ lastMole' = IF o.resp.mole_spawned /\ o.resp.new_mole_location # <<>>
                         THEN [treeId |-> r.treeId, location |-> o.resp.new_mole_location]
                         ELSE lastMole
          /\ UNCHANGED <<pollIntervals, adjacency, viz, treeCall, layout, timerDisplay>>
          /\ settleTimers' = IF o.resp.mole_spawned
                             THEN Append(settleTimers, SettleTimer(r, o.resp))
                             ELSE settleTimers
    /\ requests' = requests \ {r}
    /\ lastCall = "none" /\ UNCHANGED lastCall
    /\ UNCHANGED <<gameState, gameStats, hasPlayedIntro, cmdState, gameReqs, timerReqs,
                   dirTimers, sent>>

\* The request throws: the network fails before the service executed the command,
\* or after it did and the response is lost.
RejectCommand(r) ==
    /\ updates = <<>>
    /\ \/ UNCHANGED server
       \/ \E o \in ServerOutcomes(server[r.treeId], ServerTree(r.treeId), r.cmd) :
             server' = [server EXCEPT ![r.treeId] = o.game]
    /\ requests' = requests \ {r}
    /\ updates' = updates \o CatchUpdates(r) \o FinallyUpdates(r)
    /\ lastCall = "none" /\ UNCHANGED lastCall /\ received' = NoResponse /\ UNCHANGED <<pollIntervals, adjacency, viz, treeCall, layout, lastMole, timerDisplay>>
    /\ UNCHANGED <<gameState, gameStats, hasPlayedIntro, cmdState, gameReqs, timerReqs,
                   settleTimers, dirTimers, sent>>

CommandResolves == \E r \in requests : ResolveCommand(r)
CommandRejects == \E r \in requests : RejectCommand(r)

\* -------------------------------------------------------- deferred callbacks
\* setMoleDirection(direction): the updater, and a 5 s timeout for a direction.
setMoleDirection(direction) == <<[op |-> "setMoleDirection", direction |-> direction, by |-> 0]>>

DirectionTimers_None(direction) == 0

DirectionTimers(direction) == IF direction # NULL THEN 1 ELSE 0

\* The settle-delay callback of handleMoleKilled.
SettleUpdates(t) ==
    <<[op |-> "setMoleKilled", killed |-> FALSE, by |-> t.by]>>
    \o (IF t.new_mole_location # <<>>
        THEN <<[op |-> "updateTreeData", kind |-> "moveMole", path |-> t.new_mole_location,
                by |-> t.by]>>
        ELSE <<>>)
    \o (IF t.mole_direction # NULL THEN setMoleDirection(t.mole_direction) ELSE <<>>)

\* Timeouts of one delay fire in the order they were set.
SettleTimeout ==
    /\ updates = <<>>
    /\ settleTimers # <<>>
    /\ updates' = updates \o SettleUpdates(Head(settleTimers))
    /\ dirTimers' = dirTimers + (IF Head(settleTimers).mole_direction # NULL
                                 THEN DirectionTimers(Head(settleTimers).mole_direction)
                                 ELSE 0)
    /\ settleTimers' = Tail(settleTimers)
    /\ lastCall = "none" /\ UNCHANGED lastCall /\ received' = NoResponse /\ UNCHANGED <<pollIntervals, adjacency, viz, treeCall, layout, lastMole, timerDisplay>>
    /\ UNCHANGED <<gameState, gameStats, hasPlayedIntro, cmdState, requests, gameReqs,
                   timerReqs, server, sent>>

\* The auto-hide callback of setMoleDirection.
DirectionTimeout ==
    /\ updates = <<>>
    /\ dirTimers > 0
    /\ dirTimers' = dirTimers - 1
    /\ updates' = updates \o <<[op |-> "setMoleDirection", direction |-> NULL, by |-> 0]>>
    /\ lastCall = "none" /\ UNCHANGED lastCall /\ received' = NoResponse /\ UNCHANGED <<pollIntervals, adjacency, viz, treeCall, layout, lastMole, timerDisplay>>
    /\ UNCHANGED <<gameState, gameStats, hasPlayedIntro, cmdState, requests, gameReqs,
                   timerReqs, settleTimers, server, sent>>

\* The intro effect: with a tree loaded and the intro not yet marked as played, a
\* 10 s timeout is pending (cleared and set again when gameState.tree changes);
\* its callback marks the intro as played.
IntroTimeout ==
    /\ updates = <<>>
    /\ gameState.tree # NoTree
    /\ ~hasPlayedIntro
    /\ updates' = Append(updates, [op |-> "setHasPlayedIntro", value |-> TRUE, by |-> 0])
    /\ lastCall = "none" /\ UNCHANGED lastCall /\ received' = NoResponse /\ UNCHANGED <<pollIntervals, adjacency, viz, treeCall, layout, lastMole, timerDisplay>>
    /\ UNCHANGED <<gameState, gameStats, hasPlayedIntro, cmdState, requests, gameReqs,
                   timerReqs, settleTimers, dirTimers, server, sent>>

\* ---------------------------------------------------------- handleTimerExpire
\* The timer poll reports expired and calls onTimerExpire.
handleTimerExpire ==
    /\ updates = <<>>
    /\ gameState.tree # NoTree
    /\ sent < MaxRequests
    /\ timerReqs' = timerReqs \cup {[id |-> sent + 1, treeId |-> gameState.tree.id,
                                     sessionId |-> gameState.sessionId]}
    /\ sent' = sent + 1
    /\ lastCall = "none" /\ UNCHANGED lastCall /\ received' = NoResponse /\ UNCHANGED <<pollIntervals, adjacency, viz, treeCall, layout, lastMole, timerDisplay>>
    /\ UNCHANGED <<gameState, gameStats, hasPlayedIntro, cmdState, updates, requests, gameReqs,
                   settleTimers, dirTimers, server>>

\* The updaters queued when checkTimer reports an escape to newLocation.
EscapeUpdates(newLocation, direction) ==
    <<[op |-> "addToHistory", by |-> 0,
       entry |-> [command |-> <<"Mole escaped!">>,
                  output |-> <<<<"The mole escaped!">>, <<"New mole detected", "far">>>>,
                  success |-> FALSE]]>>
    \o (IF newLocation # <<>>
        THEN <<[op |-> "updateTreeData", kind |-> "moveMole", path |-> newLocation, by |-> 0]>>
             \o (IF direction # NULL THEN setMoleDirection(direction) ELSE <<>>)
        ELSE <<>>)

\* checkTimer resolves: the service reports whether the mole escaped, and where to.
CheckTimerResolves ==
    /\ updates = <<>>
    /\ \E t \in timerReqs :
        /\ timerReqs' = timerReqs \ {t}
        /\ \/ /\ UNCHANGED <<updates, dirTimers, server, lastMole>>
           \/ \E m \in PathsOf(ServerTree(t.treeId)) \ {server[t.treeId].mole}, d \in Directions :
                 /\ server' = [server EXCEPT ![t.treeId].mole = m]
                 /\ updates' = updates \o EscapeUpdates(m, d)
                 /\ lastMole' = [treeId |-> t.treeId, location |-> m]
                 /\ dirTimers' = dirTimers + DirectionTimers(d)
    /\ lastCall = "none" /\ UNCHANGED lastCall /\ received' = NoResponse /\ UNCHANGED <<pollIntervals, adjacency, viz, treeCall, layout, timerDisplay>>
    /\ UNCHANGED <<gameState, gameStats, hasPlayedIntro, cmdState, requests, gameReqs,
                   settleTimers, sent>>

\* checkTimer throws: the error is logged and nothing else happens.
CheckTimerRejects ==
    /\ updates = <<>>
    /\ \E t \in timerReqs : timerReqs' = timerReqs \ {t}
    /\ lastCall = "none" /\ UNCHANGED lastCall /\ received' = NoResponse /\ UNCHANGED <<pollIntervals, adjacency, viz, treeCall, layout, lastMole, timerDisplay>>
    /\ UNCHANGED <<gameState, gameStats, hasPlayedIntro, cmdState, updates, requests,
                   gameReqs, settleTimers, dirTimers, server, sent>>

\* ------------------------------------------------- startNewGame / initializeGame
\* initializeGame is called on mount and by the New Game, Start and Try Again
\* buttons; none of them is rendered while the loading screen shows.
initializeGame ==
    /\ updates = <<>>
    /\ ~gameState.loading
    /\ sent < MaxRequests
    /\ updates' = Append(updates, [op |-> "setLoading", by |-> 0])
    /\ gameReqs' = gameReqs + 1
    /\ sent' = sent + 1
    /\ lastCall = "none" /\ UNCHANGED lastCall /\ received' = NoResponse /\ UNCHANGED <<pollIntervals, adjacency, viz, treeCall, layout, lastMole, timerDisplay>>
    /\ UNCHANGED <<gameState, gameStats, hasPlayedIntro, cmdState, requests, timerReqs,
                   settleTimers, dirTimers, server>>

\* The 'Hunt started!' entry initializeGame adds.
StartEntry == [command |-> <<"Hunt started!">>, output |-> <<<<"hint">>>>, success |-> TRUE]

NewGameUpdates_KeepStats(tree, sessionId) ==
    <<[op |-> "setGame", tree |-> tree, sessionId |-> sessionId, by |-> 0],
      [op |-> "clearHistory", by |-> 0],
      [op |-> "addToHistory", entry |-> StartEntry, by |-> 0]>>

\* The updaters startNewGame and then initializeGame queue for a created game.
\* initializeGame resumes in the microtask after startNewGame returns, before any
\* other handler can run.
NewGameUpdates(tree, sessionId) ==
    <<[op |-> "setGame", tree |-> tree, sessionId |-> sessionId, by |-> 0],
      [op |-> "resetGameStats", by |-> 0],
      [op |-> "setHasPlayedIntro", value |-> FALSE, by |-> 0],
      [op |-> "clearHistory", by |-> 0],
      [op |-> "addToHistory", entry |-> StartEntry, by |-> 0]>>

\* createGame resolves: the service creates the next game, with the player at the
\* root of its tree and the mole at one of MoleStarts.
CreateGameResolves ==
    /\ updates = <<>>
    /\ gameReqs > 0
    /\ gameReqs' = gameReqs - 1
    /\ LET g == Cardinality(CreatedGames) + 1 IN
       \E mole \in MoleStarts(ServerTree(g)) :
          /\ server' = [server EXCEPT ![g] = [pos |-> ROOT, mole |-> mole, kills |-> 0]]
          /\ updates' = updates \o
                NewGameUpdates([id |-> g, player_location |-> ROOT, tree_data |-> ServerTree(g)], g)
    /\ lastCall = "none" /\ UNCHANGED lastCall /\ received' = NoResponse /\ UNCHANGED <<pollIntervals, adjacency, viz, treeCall, layout, lastMole, timerDisplay>>
    /\ UNCHANGED <<gameState, gameStats, hasPlayedIntro, cmdState, requests, timerReqs,
                   settleTimers, dirTimers, sent>>

\* createGame throws.
CreateGameRejects ==
    /\ updates = <<>>
    /\ gameReqs > 0
    /\ gameReqs' = gameReqs - 1
    /\ updates' = Append(updates, [op |-> "setStartError", by |-> 0])
    /\ lastCall = "none" /\ UNCHANGED lastCall /\ received' = NoResponse /\ UNCHANGED <<pollIntervals, adjacency, viz, treeCall, layout, lastMole, timerDisplay>>
    /\ UNCHANGED <<gameState, gameStats, hasPlayedIntro, cmdState, requests, timerReqs,
                   settleTimers, dirTimers, server, sent>>

\* -------------------------------------------------------------------- Next
Next ==
    \/ Render
    \/ TerminalSubmit
    \/ CallWithoutGame
    \/ clearCommand
    \/ handleNodeClick
    \/ CommandResolves
    \/ CommandRejects
    \/ SettleTimeout
    \/ DirectionTimeout
    \/ handleTimerExpire
    \/ CheckTimerResolves
    \/ CheckTimerRejects
    \/ initializeGame
    \/ CreateGameResolves
    \/ CreateGameRejects

Spec == Init /\ [][Next]_vars

\* ---------------------------------------------------- isAdjacentNode alone
\* TreeVisualizer calls isAdjacentNode with a node's path and the player's location.
InitAdjacent ==
    /\ GameInit
    /\ adjacency \in [nodePath : PathStrings, currentPath : NodePaths,
                      called : {FALSE}, result : {FALSE}]
    /\ viz = NoVisualizer
    /\ treeCall = NoTreeCall
    /\ layout = NoLayout

CheckAdjacent ==
    /\ ~adjacency.called
    /\ adjacency' = [adjacency EXCEPT !.called = TRUE,
                         !.result = isAdjacentNode(adjacency.nodePath, adjacency.currentPath)]
    /\ UNCHANGED <<gameState, gameStats, hasPlayedIntro, cmdState, updates, requests,
                   gameReqs, timerReqs, settleTimers, dirTimers, server, sent, lastCall,
                   received, pollIntervals, viz, treeCall, layout, lastMole, timerDisplay>>

NextAdjacent == CheckAdjacent
SpecAdjacent == InitAdjacent /\ [][NextAdjacent]_vars

\* -------------------------------------------------------- useTreeUtils alone
\* The trees of the service with any of their nodes flagged, and a path to flag.
RECURSIVE FlagAll(_, _)
FlagAll(treeData, paths) ==
    IF paths = {} THEN treeData
    ELSE LET m == CHOOSE x \in paths : TRUE
         IN  FlagAll(updateTreeDataToShowMole(treeData, m), paths \ {m})
TreeInputs == {FlagAll(shape, ms) : shape \in {TreeA, TreeB}, ms \in SUBSET VizLocations}

InitTreeUtils ==
    /\ GameInit
    /\ adjacency = NoCheck
    /\ viz = NoVisualizer
    /\ layout = NoLayout
    /\ treeCall \in [treeData : TreeInputs, molePath : VizLocations, fn : {"none"},
                     result : {Node(<<>>, <<>>)}]

TreeCallOnly ==
    UNCHANGED <<gameState, gameStats, hasPlayedIntro, cmdState, updates, requests,
                gameReqs, timerReqs, settleTimers, dirTimers, server, sent, lastCall,
                received, pollIntervals, adjacency, viz, layout, lastMole, timerDisplay>>

ShowMole ==
    /\ treeCall.fn = "none"
    /\ treeCall' = [treeCall EXCEPT !.fn = "updateTreeDataToShowMole",
                       !.result = updateTreeDataToShowMole(treeCall.treeData, treeCall.molePath)]
    /\ TreeCallOnly

RemoveMole ==
    /\ treeCall.fn = "none"
    /\ treeCall' = [treeCall EXCEPT !.fn = "removeMoleFromTree",
                       !.result = removeMoleFromTree(treeCall.treeData)]
    /\ TreeCallOnly

NextTreeUtils == ShowMole \/ RemoveMole
SpecTreeUtils == InitTreeUtils /\ [][NextTreeUtils]_vars

\* ------------------------------------------------------ TimerDisplay alone
\* The poll effect of TimerDisplay.  Effect runs are numbered; a timer_status
\* request in flight is known by the number of the run whose checkTimer sent it,
\* and timerData.by and expireCalledBy record the run whose response set the
\* displayed data or called its onTimerExpire in the last step.
TimerOnly ==
    UNCHANGED <<gameState, gameStats, hasPlayedIntro, cmdState, updates, requests,
                gameReqs, timerReqs, settleTimers, dirTimers, server, sent, lastCall,
                received, pollIntervals, adjacency, viz, treeCall, layout, lastMole>>

\* The component mounts, or gameTreeId, sessionId or onTimerExpire changed: the
\* cleanup of the previous run clears its interval; the effect returns at once
\* without a tree id, else it calls checkTimer and sets the interval.
TimerEffectRuns ==
    /\ timerDisplay.run < MaxRequests
    /\ \E gameTreeId \in {0, 1} :
          timerDisplay' =
              IF gameTreeId = 0
              THEN [timerDisplay EXCEPT !.mounted = TRUE, !.run = @ + 1, !.interval = FALSE,
                                        !.expireCalledBy = 0]
              ELSE [timerDisplay EXCEPT !.mounted = TRUE, !.run = @ + 1, !.interval = TRUE,
                                        !.statusReqs = @ \cup {timerDisplay.run + 1},
                                        !.expireCalledBy = 0]
    /\ TimerOnly

\* The interval fires: checkTimer of the run that set it sends a request.
PollTick ==
    /\ timerDisplay.interval
    /\ timerDisplay' = [timerDisplay EXCEPT !.statusReqs = @ \cup {timerDisplay.run},
                                            !.expireCalledBy = 0]
    /\ TimerOnly

\* The component unmounts: the cleanup clears the interval.
TimerUnmount ==
    /\ timerDisplay.mounted
    /\ timerDisplay' = [timerDisplay EXCEPT !.mounted = FALSE, !.interval = FALSE,
                                            !.expireCalledBy = 0]
    /\ TimerOnly

\* The fetch of a request resolves or throws and the rest of checkTimer runs:
\* with an ok response setTimerData, which React ignores once the component is
\* unmounted, and with expired the onTimerExpire the run closed over.
StatusSettles(n) ==
    /\ n \in timerDisplay.statusReqs
    /\ \E outcome \in {"expired", "running", "failed"} :
          timerDisplay' =
              [timerDisplay EXCEPT
                  !.statusReqs = @ \ {n},
                  !.timerData = IF outcome # "failed" /\ timerDisplay.mounted
                                THEN [expired |-> outcome = "expired", by |-> n] ELSE @,
                  !.expireCalledBy = IF outcome = "expired" THEN n ELSE 0]
    /\ TimerOnly
StatusResolves == \E n \in timerDisplay.statusReqs : StatusSettles(n)

NextTimerDisplay == TimerEffectRuns \/ PollTick \/ TimerUnmount \/ StatusResolves
SpecTimerDisplay == Init /\ [][NextTimerDisplay]_vars

\* ------------------------------------------------------- the layout alone
\* The part of the TreeVisualizer effect that lays the tree out: d3.hierarchy, the
\* canvas dimensions, d3.tree with the separation function, and the centring of
\* the root.  Lengths are in view-box units; a separation is in tenths (2.5 is 25)
\* and the preliminary coordinates of d3.tree are in twentieths, so that midpoints
\* and half separations are integers.  A final x is the fraction num / den.
DirNames == <<"a", "b", "c", "d", "e", "f", "g", "h">>

\* A directory with k children, the c-th of which (if any) has j children.
Wide(k, c, j) ==
    Node(ROOT, [i \in 1..k |->
        Node(<<"/", DirNames[i]>>,
             IF i = c THEN [g \in 1..j |-> Node(<<"/", DirNames[i], "/", DirNames[g]>>, <<>>)]
             ELSE <<>>)])
LayoutTrees == {Wide(k, c, j) : k \in 0..MaxChildren, c \in 0..MaxChildren, j \in 1..MaxChildren}
ContainerWidths == {200, 800}
ContainerHeights == {600, 1440}

\* d3.hierarchy: a node knows its data, its depth, its parent and its index.
NoParent == [depth |-> -1]
HierarchyNode(data, depth, parent, i) == [data |-> data, depth |-> depth, parent |-> parent, i |-> i]
ChildrenOf(h) ==
    [i \in 1..Len(h.data.children) |-> HierarchyNode(h.data.children[i], h.depth + 1, h, i)]

\* node.eachBefore: the node and its descendants in pre-order.
RECURSIVE eachBefore(_)
RECURSIVE EachBeforeAll(_)
eachBefore(h) == <<h>> \o EachBeforeAll(ChildrenOf(h))
EachBeforeAll(hs) == IF hs = <<>> THEN <<>> ELSE eachBefore(Head(hs)) \o EachBeforeAll(Tail(hs))

\* levelCounts starts as {} in every run of the effect.
NoLevelCounts == [d \in 0..2 |-> 0]
InitialLevelCounts_Kept(runs) ==
    IF runs = <<>> THEN NoLevelCounts ELSE runs[Len(runs)].levelCounts
InitialLevelCounts(runs) == NoLevelCounts
LevelCounts(nodes, initial) ==
    [d \in 0..2 |-> initial[d] + Cardinality({n \in DOMAIN nodes : nodes[n].depth = d})]
MaxOf(S) == CHOOSE m \in S : \A x \in S : x <= m

\* The separation function handed to d3.tree, in tenths.
IsLeaf(h) == Len(h.data.children) = 0
ParentChildCount(h) == IF h.parent = NoParent THEN 0 ELSE Len(h.parent.data.children)
separation_DepthFirst(a, b) ==
    IF a.depth = 0 \/ b.depth = 0 THEN 40
    ELSE IF a.depth = 1 \/ b.depth = 1 THEN 30
    ELSE IF a.parent = b.parent /\ ParentChildCount(a) > 3
    THEN IF IsLeaf(a) /\ IsLeaf(b) THEN 25 ELSE 20
    ELSE IF IsLeaf(a) /\ IsLeaf(b) THEN 15
    ELSE IF a.parent = b.parent THEN 15 ELSE 20

separation(a, b) ==
    IF a.parent = b.parent /\ ParentChildCount(a) > 3
    THEN IF IsLeaf(a) /\ IsLeaf(b) THEN 25 ELSE 20
    ELSE IF a.depth = 0 \/ b.depth = 0 THEN 40
    ELSE IF a.depth = 1 \/ b.depth = 1 THEN 30
    ELSE IF IsLeaf(a) /\ IsLeaf(b) THEN 15
    ELSE IF a.parent = b.parent THEN 15 ELSE 20

\* d3.tree, first walk: the preliminary coordinate of a node is that of its left
\* sibling plus the separation, or the midpoint of its children when it has no
\* left sibling.  In the trees laid out here at most one child of a node has
\* children, so that no subtree is shifted by apportion.
LeftSibling(v) == ChildrenOf(v.parent)[v.i - 1]
RECURSIVE Prelim(_)
Midpoint(v) ==
    LET kids == ChildrenOf(v) IN (Prelim(kids[1]) + Prelim(kids[Len(kids)])) \div 2
Prelim(v) ==
    IF v.i > 1 THEN Prelim(LeftSibling(v)) + 2 * separation(v, LeftSibling(v))
    ELSE IF IsLeaf(v) THEN 0 ELSE Midpoint(v)
Mod(v) == IF ~IsLeaf(v) /\ v.i > 1 THEN Prelim(v) - Midpoint(v) ELSE 0

\* d3.tree, second walk: the preliminary coordinate plus the modifiers of the
\* ancestors; the root lands on 0.
RECURSIVE ModSum(_, _)
ModSum(h, root) == IF h = NoParent THEN 0 - Prelim(root) ELSE Mod(h) + ModSum(h.parent, root)

\* The calls of the separation function d3.tree makes in the first walk.
FirstWalkCalls(nodes) ==
    {[a |-> nodes[n], b |-> LeftSibling(nodes[n]),
      factor |-> separation(nodes[n], LeftSibling(nodes[n]))] :
        n \in {m \in DOMAIN nodes : nodes[m].i > 1}}

\* One run of the layout part of the effect.
TreeLayoutRun(treeData, containerWidth, containerHeight, initialLevelCounts) ==
    LET root == HierarchyNode(treeData, 0, NoParent, 1)
        nodes == eachBefore(root)
        levelCounts == LevelCounts(nodes, initialLevelCounts)
        maxNodesAtLevel == MaxOf({levelCounts[d] : d \in 0..2})
        width == MaxOf({maxNodesAtLevel * 140, (containerWidth * 25) \div 10})
        height == MaxOf({containerHeight, 1200})
        dx == width - 160 - 160
        dy == height - 120 - 120
        X(n) == Prelim(nodes[n]) + ModSum(nodes[n].parent, root)
        xs == {X(n) : n \in DOMAIN nodes}
        left == CHOOSE n \in DOMAIN nodes :
                    /\ \A m \in DOMAIN nodes : X(n) <= X(m)
                    /\ \A m \in 1..(n - 1) : X(m) > X(n)
        right == CHOOSE n \in DOMAIN nodes :
                    /\ \A m \in DOMAIN nodes : X(n) >= X(m)
                    /\ \A m \in 1..(n - 1) : X(m) < X(n)
        bottomDepth == MaxOf({nodes[n].depth : n \in DOMAIN nodes})
        s == IF left = right THEN 20 ELSE separation(nodes[left], nodes[right])
        tx == s - X(left)
        ky == dy \div (IF bottomDepth = 0 THEN 1 ELSE bottomDepth)
    IN  [levelCounts |-> levelCounts,
         width |-> width,
         height |-> height,
         calls |-> FirstWalkCalls(nodes),
         nodes |-> [n \in DOMAIN nodes |->
                      [path |-> nodes[n].data.path,
                       x |-> IF n = 1 THEN [num |-> width, den |-> 2]
                             ELSE [num |-> (X(n) + tx) * dx, den |-> X(right) + s + tx],
                       y |-> nodes[n].depth * ky,
                       depth |-> nodes[n].depth]]]

InitLayout ==
    /\ GameInit
    /\ adjacency = NoCheck
    /\ viz = NoVisualizer
    /\ treeCall = NoTreeCall
    /\ layout \in [treeData : LayoutTrees, containerWidth : ContainerWidths,
                   containerHeight : ContainerHeights, runs : {<<>>}]

\* The effect runs, with the same tree and the same container.
LayoutRuns ==
    /\ Len(layout.runs) < 2
    /\ layout' = [layout EXCEPT !.runs =
                     Append(@, TreeLayoutRun(layout.treeData, layout.containerWidth,
                                             layout.containerHeight,
                                             InitialLevelCounts(layout.runs)))]
    /\ UNCHANGED <<gameState, gameStats, hasPlayedIntro, cmdState, updates, requests,
                   gameReqs, timerReqs, settleTimers, dirTimers, server, sent, lastCall,
                   received, pollIntervals, adjacency, viz, treeCall, lastMole, timerDisplay>>

SpecLayout == InitLayout /\ [][LayoutRuns]_vars

\* ------------------------------------------------- TreeVisualizer alone
\* The component under the renders of Game: each action is a render with new props
\* (the effect runs), the end of a transition, or a click on a node.
GameUnchanged ==
    UNCHANGED <<gameState, gameStats, hasPlayedIntro, cmdState, updates, requests,
                gameReqs, timerReqs, settleTimers, dirTimers, server, sent, lastCall,
                received, pollIntervals, adjacency, treeCall, layout, lastMole, timerDisplay>>

InitCamera ==
    /\ GameInit
    /\ adjacency = NoCheck
    /\ treeCall = NoTreeCall
    /\ layout = NoLayout
    /\ viz \in {Mount(t) : t \in VizTrees}

\* updatePlayerLocation after a command response: a new tree object, a new location.
VizLocationChanges ==
    /\ \E loc \in VizLocations \ {viz.playerLocation} :
          viz' = TreeVisualizerEffect(viz, viz.treeData, loc, viz.playIntro, TRUE)
    /\ GameUnchanged

\* updateTreeData after a kill, a settle delay or an escape: only has_mole differs.
VizTreeMutates ==
    /\ \E t \in VizTrees \ {viz.treeData} :
          /\ removeMoleFromTree(t) = removeMoleFromTree(viz.treeData)
          /\ viz' = TreeVisualizerEffect(viz, t, viz.playerLocation, viz.playIntro, TRUE)
    /\ GameUnchanged

\* executing flips: executeCommand, and with it handleNodeClick, is a new function.
VizCallbackChanges ==
    /\ viz' = TreeVisualizerEffect(viz, viz.treeData, viz.playerLocation, viz.playIntro, FALSE)
    /\ GameUnchanged

\* The intro timeout of Game fires: 10 s after the last new gameState.tree.  The
\* intro's transitions take 9 s, so a chain started with that tree has ended.
VizIntroTimeout ==
    /\ viz.playIntro
    /\ viz.chain = <<>> \/ viz.staleTimer
    /\ viz' = TreeVisualizerEffect(viz, viz.treeData, viz.playerLocation, FALSE, FALSE)
    /\ GameUnchanged

\* A new game: the loading screen unmounts the component, the new tree mounts it.
VizNewGame ==
    /\ \E t \in VizTrees : viz' = Mount(t)
    /\ GameUnchanged

\* The running transition ends: the svg's zoom transform is its target, the next
\* transition of the chain starts; the last one of an intro clears isAnimatingRef.
PhaseEnds ==
    /\ viz.chain # <<>>
    /\ viz' = [viz EXCEPT !.zoom = Head(viz.chain),
                          !.camera = IF viz.attached THEN Head(viz.chain) ELSE viz.camera,
                          !.chain = Tail(viz.chain),
                          !.isAnimating = IF Tail(viz.chain) = <<>> /\ viz.endClears
                                          THEN FALSE ELSE viz.isAnimating]
    /\ GameUnchanged

\* A click on a node of the rendered tree: whether the handler calls onNodeClick.
ClickGate_Open(path, playerLocation) == TRUE
ClickGate(path, playerLocation) ==
    path # playerLocation /\ isAdjacentNode(path, playerLocation)

NodeClick ==
    /\ \E path \in PathsOf(viz.treeData) :
          viz' = [viz EXCEPT !.lastClick =
                     [node |-> path, from |-> viz.playerLocation,
                      invoked |-> ClickGate(path, viz.playerLocation)]]
    /\ GameUnchanged

NextCamera ==
    \/ VizLocationChanges
    \/ VizTreeMutates
    \/ VizCallbackChanges
    \/ VizIntroTimeout
    \/ VizNewGame
    \/ PhaseEnds
    \/ NodeClick
SpecCamera == InitCamera /\ [][NextCamera]_vars

\* The player zooms or pans the svg (wheel, drag or touch on the zoom behaviour):
\* d3-zoom interrupts the transitions of the svg, the running one and the ones
\* chained to it, whose 'end' listeners are never called, and the gesture sets
\* the transform of the rendered tree.
UserTransform == [at |-> <<"gesture">>, scale |-> "gesture", nudged |-> FALSE]
UserZoom ==
    /\ viz' = [viz EXCEPT !.chain = <<>>, !.zoom = UserTransform, !.camera = UserTransform]
    /\ GameUnchanged

\* TreeVisualizer with the player's gestures as well.
NextGesture == NextCamera \/ UserZoom
SpecGesture == InitCamera /\ [][NextGesture]_vars

\* The game with the intro timeout as well.
NextIntro == Next \/ IntroTimeout
SpecIntro == Init /\ [][NextIntro]_vars

\* ------------------------------------------------------------------ properties
\* The command history and the tree as they stand once every queued updater ran.
\* Only addToHistory and clearHistory updaters touch the history.
HistoryUpdates == SelectSeq(updates, LAMBDA u : u.op \in {"addToHistory", "clearHistory"})
LatestHistory == ApplyAll(Rendered, HistoryUpdates).cmdState.commandHistory
LatestTree == Latest.gameState.tree

\* C1: at most one command request is outstanding at any time, also when
\* executeCommand is called twice before the component re-renders.
C1_AtMostOneCommandInFlight == Cardinality(requests) <= 1

\* C2: whenever no command request is outstanding, the in-flight flag is false
\* once the queued updaters ran: every call that set it reset it when its request
\* resolved or rejected.
C2_FlagResetWhenIdle == requests = {} => ~Latest.cmdState.executing

\* A request was sent and rejected, none is outstanding and the flag is rendered
\* false again.
C2_Witness ==
    /\ requests = {}
    /\ updates = <<>>
    /\ ~cmdState.executing
    /\ \E i \in DOMAIN cmdState.commandHistory :
          cmdState.commandHistory[i].output = <<<<ERROR_OUTPUT>>>>

\* The error entry the catch block records for request r.
ErrorEntry(r) == [command |-> r.cmd, output |-> <<<<ERROR_OUTPUT>>>>, success |-> FALSE]

\* C3: a request that throws adds exactly one history entry, the connection error
\* with success false, is not sent again, and leaves the location, the mole flags,
\* the score and the direction as they were.
C3_RejectAddsOneErrorEntry ==
    [][\A r \in requests : RejectCommand(r) =>
          /\ LatestHistory' = Append(LatestHistory, ErrorEntry(r))
          /\ requests' = requests \ {r}
          /\ sent' = sent
          /\ LatestTree' = LatestTree
          /\ Latest'.gameStats = Latest.gameStats]_vars

\* A cd command was rejected: its error entry is the last of the rendered history.
C3_Witness ==
    /\ cmdState.commandHistory # <<>>
    /\ cmdState.commandHistory[Len(cmdState.commandHistory)] = ErrorEntry([cmd |-> Cd(HOME)])
    /\ gameState.tree.player_location = ROOT

\* The commands the callers of executeCommand pass.
Commands == BlankCommands \cup {KILL, Cd(ROOT), Cd(HOME), Cd(HOME_U), Cd(VAR)}
IsBlank(cmd) == \A i \in DOMAIN cmd : cmd[i] = " "

\* C4: executeCommand called with an empty or whitespace-only command, or with no
\* game loaded, does nothing: no request, no history entry, the flag as it was.
C4_BlankOrNoSessionIsNoOp ==
    [][\A cmd \in Commands :
          ((IsBlank(cmd) \/ gameState.tree.id = 0) /\ executeCommand(cmd)) =>
              /\ requests' = requests
              /\ sent' = sent
              /\ updates' = updates
              /\ UNCHANGED <<gameState, gameStats, hasPlayedIntro, cmdState, server>>]_vars

\* A whitespace-only command was just submitted with a game loaded and nothing
\* in flight.
C4_Witness ==
    /\ lastCall = "blank"
    /\ gameState.tree.id # 0
    /\ requests = {}
    /\ ~cmdState.executing

\* C5: a request that resolves adds exactly one history entry: the issued command,
\* the warning lines above the response's output, and the response's success.
C5_ResolveAddsOneEntry ==
    [][\A r \in requests : ResolveCommand(r) =>
          LatestHistory' =
              Append(LatestHistory,
                     [command |-> r.cmd,
                      output |-> WarningLines(received'.response.timer_warnings)
                                 \o received'.response.output,
                      success |-> received'.response.success])]_vars

\* 'cd /home' issued at '/' resolved with success and the player is at '/home'.
C5_Witness ==
    /\ received # NoResponse
    /\ received.request.cmd = Cd(HOME)
    /\ received.request.loc = ROOT
    /\ received.response.success
    /\ LatestHistory[Len(LatestHistory)] = [command |-> Cd(HOME), output |-> <<>>, success |-> TRUE]
    /\ LatestTree.player_location = HOME

\* C6: the history only grows at its end, one entry a step, and is emptied only
\* when a new game starts (which leaves the 'Hunt started!' entry alone in it).
C6_HistoryAppendOnly ==
    [][LET before == LatestHistory
           after == LatestHistory'
       IN  \/ UNCHANGED <<cmdState, updates>>
           \/ after = before
           \/ /\ Len(after) = Len(before) + 1
              /\ SubSeq(after, 1, Len(before)) = before
           \/ /\ LatestTree'.id # LatestTree.id
              /\ after = <<StartEntry>>]_vars

\* Three entries were appended after the start entry of a game.
C6_Witness ==
    /\ Len(cmdState.commandHistory) >= 3
    /\ cmdState.commandHistory[1] = StartEntry
    /\ cmdState.commandHistory[2].command = Cd(HOME)

MoleLifecycleOps == {"updateTreeData", "setMoleKilled", "updateScore"}

\* C7: for a response with a current path and a spawned mole, the location
\* updater is queued before the updaters that mark the mole, set the caught
\* transient and update the score.
C7_LocationBeforeMoleLifecycle ==
    (/\ received # NoResponse
     /\ received.response.current_path # <<>>
     /\ received.response.mole_spawned) =>
        \E i \in DOMAIN updates :
            /\ updates[i] = [op |-> "updatePlayerLocation",
                             path |-> received.response.current_path,
                             by |-> received.request.id]
            /\ \A j \in DOMAIN updates : updates[j].op \in MoleLifecycleOps => i < j
            /\ \A op \in MoleLifecycleOps :
                  \E j \in DOMAIN updates : updates[j].op = op /\ updates[j].by = received.request.id

\* A kill response reports a spawned mole and a current path other than the one
\* the client shows.
C7_Witness ==
    /\ received # NoResponse
    /\ received.response.mole_spawned
    /\ received.response.current_path # <<>>
    /\ received.response.current_path # gameState.tree.player_location

\* C8: with a tree loaded, the player's path is the path of a node of the tree.
C8_PlayerPathInTree ==
    gameState.tree.id # 0 => gameState.tree.player_location \in PathsOf(gameState.tree.tree_data)

\* C9: at most one node of the tree has has_mole set.
C9_AtMostOneMoleNode == Cardinality(MolesOf(gameState.tree.tree_data)) <= 1

\* C10: when the settle delay of a kill response elapses, exactly one node has
\* has_mole set, the new mole location of that response.
C10_SettleLeavesOneMole ==
    [][SettleTimeout =>
          MolesOf(LatestTree'.tree_data) = {Head(settleTimers).new_mole_location}]_vars

\* C11: while the caught transient is set, the new mole location of a kill
\* response whose settle delay has not elapsed is not flagged in the tree.
C11_NewMoleOnlyAfterSettle ==
    gameStats.moleKilled =>
        \A i \in DOMAIN settleTimers :
            settleTimers[i].new_mole_location \notin MolesOf(gameState.tree.tree_data)

\* C12: when checkTimer reports an escape to a new location, afterwards exactly
\* the new location is flagged, the caught transient is as it was, and the
\* history has gained exactly one entry, with success false.
C12_EscapeMovesMoleFlag ==
    [][\A t \in timerReqs :
          (/\ timerReqs' = timerReqs \ {t}
           /\ server'[t.treeId].mole # server[t.treeId].mole) =>
              /\ MolesOf(LatestTree'.tree_data) = {server'[t.treeId].mole}
              /\ Latest'.gameStats.moleKilled = Latest.gameStats.moleKilled
              /\ Len(LatestHistory') = Len(LatestHistory) + 1
              /\ SubSeq(LatestHistory', 1, Len(LatestHistory)) = LatestHistory
              /\ ~LatestHistory'[Len(LatestHistory')].success]_vars

\* C13: a direction shown on the indicator always has its 5 s expiry pending:
\* the timeout set together with it has not fired yet, and nothing cancels it.
C13_DirectionHasPendingExpiry == Latest.gameStats.moleDirection # NULL => dirTimers > 0

\* A direction is rendered and exactly its own expiry is pending.
C13_Witness ==
    /\ gameStats.moleDirection = "up"
    /\ updates = <<>>
    /\ dirTimers = 1

\* C14: a shown direction is cleared only by the expiry set together with it.
\* Expiries fire in the order they were set and the shown direction is the one
\* set last, so its expiry is the last one pending.
C14_EarlierExpiryDoesNotClear ==
    [][(DirectionTimeout /\ gameStats.moleDirection # NULL) => dirTimers = 1]_vars

\* C15: the settle callback of a kill of an earlier game, running after a new
\* game was loaded, changes neither the tree nor the caught transient nor the
\* direction indicator of the new game.
C15_StaleSettleChangesNothing ==
    [][(SettleTimeout /\ Head(settleTimers).treeId # gameState.tree.id) =>
          /\ LatestTree' = LatestTree
          /\ Latest'.gameStats = Latest.gameStats]_vars

\* C16: at most one timer-poll interval is active at any time.
C16_AtMostOnePollInterval == Len(pollIntervals) <= 1

\* The second game is on screen and the only interval polls it.
C16_Witness ==
    /\ gameState.tree.id = 2
    /\ pollIntervals = <<[treeId |-> 2, sessionId |-> 2]>>

\* C17: with no session id, no poll interval is active and no timer request is
\* in flight.
C17_NoPollWithoutSession ==
    gameState.sessionId = 0 => pollIntervals = <<>> /\ timerReqs = {}

\* The first game failed to start: the error screen shows and there is no session.
C17_Witness ==
    /\ gameState.sessionId = 0
    /\ gameState.error = START_ERROR
    /\ pollIntervals = <<>>

\* C18: when a new game has been created, once its updaters ran the score and the
\* kill count are 0, the direction is null, the caught transient and the
\* intro-played flag are false and the history is the 'Hunt started!' entry alone.
C18_NewGameResetsState ==
    (\E i \in DOMAIN updates : updates[i].op = "setGame") =>
        /\ Latest.gameStats = [score |-> 0, molesKilled |-> 0,
                               moleDirection |-> NULL, moleKilled |-> FALSE]
        /\ ~Latest.hasPlayedIntro
        /\ LatestHistory = <<StartEntry>>

\* A second game has just been created while the first one shows a score, a
\* direction, the intro as played and a history of several entries.
C18_Witness ==
    /\ \E i \in DOMAIN updates : updates[i].op = "setGame" /\ updates[i].tree.id = 2
    /\ gameStats.score > 0
    /\ gameStats.moleDirection # NULL
    /\ hasPlayedIntro
    /\ Len(cmdState.commandHistory) > 1

\* C19: for well-formed absolute node paths c and p, isAdjacentNode(c, p) is true
\* exactly when c is the direct parent or a direct child of p; it is false for
\* c = p, siblings, grandchildren and grandparents.
C19_AdjacentIffParentOrChild ==
    (adjacency.called /\ WellFormedPath(adjacency.nodePath)) =>
        (adjacency.result <=>
            \/ adjacency.currentPath # ROOT
               /\ adjacency.nodePath = ParentOf(adjacency.currentPath)
            \/ adjacency.nodePath # ROOT
               /\ ParentOf(adjacency.nodePath) = adjacency.currentPath)

\* The grandchild /home/u of / was found not adjacent.
C19_Witness ==
    /\ adjacency.called
    /\ adjacency.nodePath = HOME_U
    /\ adjacency.currentPath = ROOT
    /\ ~adjacency.result

\* C20: isAdjacentNode returns false for every malformed candidate path (no leading
\* '/', a trailing '/', an empty segment), whatever the current path.
C20_MalformedNeverAdjacent ==
    (adjacency.called /\ ~WellFormedPath(adjacency.nodePath)) => ~adjacency.result

C22_IntroRunsToCompletion ==
    [][(viz.isAnimating /\ viz.chain # <<>> /\ ~VizNewGame) =>
          /\ viz'.chain = viz.chain \/ viz'.chain = Tail(viz.chain)
          /\ viz'.attached = viz.attached]_vars

\* C23: whenever no transition is running, the rendered tree has the
\* player-centered transform of the current player location.
C23_IdleCenteredOnPlayer ==
    viz.chain = <<>> => viz.camera = PlayerTransform(viz.playerLocation)

\* C24: no navigation transition is started while the intro is in progress: while
\* isAnimatingRef is set the last run of the effect did not take the navigation
\* branch, and a running navigation transition is never accompanied by an intro.
C24_NoNavigationDuringIntro ==
    /\ viz.isAnimating => viz.branch # "navigation"
    /\ (viz.chain # <<>> /\ ~viz.endClears) => ~viz.isAnimating

\* The intro is in progress, the intro flag is already set and the player has
\* moved to another node of the tree: the render started no navigation.
C24_Witness ==
    /\ viz.isAnimating
    /\ ~viz.playIntro
    /\ viz.chain # <<>>
    /\ viz.playerLocation \in PathsOf(viz.treeData)
    /\ viz.chain[Len(viz.chain)] # PlayerTransform(viz.playerLocation)

\* C25: outside the intro (the intro flag set, no intro in progress) a render with
\* a player location other than that of the previous render starts one navigation
\* transition to the new player-centered transform, and a render with the same
\* location snaps to the player-centered transform with no transition.
C25_NavigateOrSnap ==
    [][(/\ VizLocationChanges \/ VizTreeMutates \/ VizCallbackChanges \/ VizIntroTimeout
        /\ ~viz'.playIntro
        /\ ~viz.isAnimating) =>
          IF viz'.playerLocation # viz.playerLocation
          THEN /\ viz'.branch = "navigation"
               /\ viz'.chain = <<PlayerTransform(viz'.playerLocation)>>
          ELSE /\ viz'.branch = "snap"
               /\ viz'.chain = <<>>
               /\ viz'.camera = PlayerTransform(viz'.playerLocation)]_vars

\* The targets of an intro in the order given: what is left of them after the first
\* k have been reached, and the svg's zoom transform then.
IntroAt(targets, k) ==
    /\ viz.chain = SubSeq(targets, k + 1, Len(targets))
    /\ viz.zoom = targets[IF k = 0 THEN 1 ELSE k]

\* C26 as stated: after the hold on the whole tree come, if a node is flagged, the
\* mole and a hold on the mole, and then directly the player-centered transform.
C26_IntroTargetsAsStated ==
    LET root == getZoomTransform(viz.treeData.path, "defaultScale", FALSE)
        fit == getZoomTransform(TreeCenter, "fullTreeScale", FALSE)
        player == getZoomTransform(viz.playerLocation, "defaultScale", TRUE)
        moles == {getZoomTransform(m, "defaultScale", FALSE) : m \in MolesOf(viz.treeData)}
        targets == IF moles = {} THEN <<root, fit, fit, player>>
                   ELSE LET mole == CHOOSE t \in moles : TRUE
                        IN  <<root, fit, fit, mole, mole, player>>
    IN  viz.branch = "intro" => \E k \in 0..Len(targets) : IntroAt(targets, k)

\* C26, amended: between the hold on the mole and the player-centered transform the
\* camera goes to the tree centre at the partial-tree scale; the transitions end one
\* after the other, and after the last one none is running.
C26_IntroTargetsInOrder ==
    LET root == getZoomTransform(viz.treeData.path, "defaultScale", FALSE)
        fit == getZoomTransform(TreeCenter, "fullTreeScale", FALSE)
        partial == getZoomTransform(TreeCenter, "partialTreeScale", FALSE)
        player == getZoomTransform(viz.playerLocation, "defaultScale", TRUE)
        moles == {getZoomTransform(m, "defaultScale", FALSE) : m \in MolesOf(viz.treeData)}
        targets == IF moles = {} THEN <<root, fit, fit, player>>
                   ELSE LET mole == CHOOSE t \in moles : TRUE
                        IN  <<root, fit, fit, mole, mole, partial, player>>
    IN  viz.branch = "intro" => \E k \in 0..Len(targets) : IntroAt(targets, k)

\* An intro with the mole at /home has ended its hold on the mole: the partial-tree
\* fit and the player-centered transform are left.
C26_Witness ==
    /\ viz.branch = "intro"
    /\ MolesOf(viz.treeData) = {HOME}
    /\ Len(viz.chain) = 2
    /\ viz.zoom = getZoomTransform(HOME, "defaultScale", FALSE)

\* C27: if the player location is not a node of the rendered tree, the camera
\* frames the root node once nothing is running.
C27_AbsentPlayerFramesRoot ==
    (viz.playerLocation \notin PathsOf(viz.treeData) /\ viz.chain = <<>>) =>
        viz.camera.at = viz.treeData.path

RECURSIVE Skeleton(_)
Skeleton(n) == [path |-> n.path,
                children |-> [i \in DOMAIN n.children |-> Skeleton(n.children[i])]]

\* C29: updateTreeDataToShowMole and removeMoleFromTree return a tree with the nodes,
\* paths and child order of the input tree: only has_mole fields differ.  The input
\* the call was made with is the tree the caller still holds.
C29_TreeShapePreserved ==
    treeCall.fn # "none" =>
        /\ Skeleton(treeCall.result) = Skeleton(treeCall.treeData)
        /\ DOMAIN treeCall.result = DOMAIN treeCall.treeData

\* removeMoleFromTree was applied to the tree with /home and /home/u flagged.
C29_Witness ==
    /\ treeCall.fn = "removeMoleFromTree"
    /\ MolesOf(treeCall.treeData) = {HOME, HOME_U}
    /\ MolesOf(treeCall.result) = {}

\* The updatePlayerLocation updaters in a queue.
LocationUpdates(us) == SelectSeq(us, LAMBDA u : u.op = "updatePlayerLocation")

\* C30: a step changes the player location only if it is the arrival of a command
\* response, which sets it to the response's current path with a single updater, or
\* the creation of a game, which places the player at the root of the new tree.  A
\* rejected request, a timer poll, an escape and the updaters of the mole flags leave
\* the location as it is.
C30_LocationWrittenByResponseOnly ==
    [][/\ Len(LocationUpdates(updates')) <= Len(LocationUpdates(updates)) + 1
       /\ LatestTree'.player_location # LatestTree.player_location =>
            \/ /\ received' # NoResponse
               /\ received'.response.current_path # <<>>
               /\ LatestTree'.player_location = received'.response.current_path
               /\ Len(LocationUpdates(updates')) = Len(LocationUpdates(updates)) + 1
            \/ /\ LatestTree'.id # LatestTree.id
               /\ received' = NoResponse
               /\ LatestTree'.player_location = ROOT]_vars

\* A response without a kill reported a path other than the rendered one, and the
\* location the next render commits is that path.
C30_Witness ==
    /\ received # NoResponse
    /\ ~received.response.mole_spawned
    /\ received.response.current_path # gameState.tree.player_location
    /\ LatestTree.player_location = received.response.current_path
    /\ Len(LocationUpdates(updates)) = 1

\* The range of separation factors, in tenths, the layout is to use for a pair.
SeparationRange(a, b) ==
    IF a.parent = b.parent /\ ParentChildCount(a) > 3 /\ IsLeaf(a) /\ IsLeaf(b) THEN 20..25
    ELSE IF a.depth \in {0, 1} \/ b.depth \in {0, 1} THEN 30..40
    ELSE 15..20

SeparationRangeWideFirst(a, b) ==
    IF a.parent = b.parent /\ ParentChildCount(a) > 3
    THEN IF IsLeaf(a) /\ IsLeaf(b) THEN {25} ELSE {20}
    ELSE IF a.depth \in {0, 1} \/ b.depth \in {0, 1} THEN 30..40
    ELSE 15..20

C33_FlagSetAfterIntroEnds ==
    [][(viz.playIntro /\ ~viz'.playIntro /\ ~VizNewGame) => viz.chain = <<>>]_vars

\* C34: when a response reports a spawned mole and a timer reason and no line of
\* its output starts with 'New mole detected', the history entry added for the
\* command has the line 'New mole detected <timer reason>!'.
C34_NewMoleLineInHistory ==
    (/\ received # NoResponse
     /\ received.response.mole_spawned
     /\ received.response.timer_reason # NULL
     /\ \A l \in DOMAIN received.response.output :
           Head(received.response.output[l]) # "New mole detected") =>
        \E i \in DOMAIN updates :
            /\ updates[i].op = "addToHistory"
            /\ updates[i].by = received.request.id
            /\ \E l \in DOMAIN updates[i].entry.output :
                  updates[i].entry.output[l] =
                      <<"New mole detected", received.response.timer_reason, "!">>

\* C35: the response of a command issued in an earlier game, arriving when another
\* game is loaded, changes neither the loaded game's player location and tree nor
\* its score nor its history.
C35_StaleResponseChangesNothing ==
    [][\A r \in requests :
          (r.treeId # gameState.tree.id /\ ResolveCommand(r)) =>
              /\ LatestTree' = LatestTree
              /\ Latest'.gameStats.score = Latest.gameStats.score
              /\ LatestHistory' = LatestHistory]_vars

\* C36: once no settle callback is pending and every queued updater has run, the
\* flagged node of the game is the mole location of the kill or escape response
\* of that game received last.
C36_FlagIsLatestMoleLocation ==
    (/\ settleTimers = <<>>
     /\ updates = <<>>
     /\ lastMole.treeId # 0
     /\ lastMole.treeId = gameState.tree.id) =>
        MolesOf(gameState.tree.tree_data) = {lastMole.location}

\* C37: at most one checkTimer request is outstanding at a time.
C37_OneCheckTimerOutstanding == Cardinality(timerReqs) <= 1

\* C38: isAnimatingRef is set only while the transitions of an intro sequence are
\* running or scheduled: when the sequence has ended or was interrupted the flag
\* is clear.
C38_AnimatingOnlyWhileIntroRuns ==
    viz.isAnimating => (viz.chain # <<>> /\ viz.endClears)

\* C39: the response of a timer_status request sent by a run of the poll effect
\* that has been torn down since (its interval cleared by the cleanup, on a change
\* of the dependencies or on unmount) leaves the displayed timer as it is and
\* calls no onTimerExpire.
C39_TornDownPollIsSilent ==
    [][\A n \in timerDisplay.statusReqs :
          (StatusSettles(n) /\ (n # timerDisplay.run \/ ~timerDisplay.mounted)) =>
              /\ timerDisplay'.timerData = timerDisplay.timerData
              /\ timerDisplay'.expireCalledBy = 0]_vars
====
